---- MODULE Spec2Model ----
(***************************************************************************)
(* HandleDuplicateFiles.cpp: the content partitioner                       *)
(* (GroupFilesByContentUsingMap driving CompareFilesBufferedAdvanced) and  *)
(* the hard-link deduplicator (DeduplicateGroup driven by wmain).          *)
(*                                                                         *)
(* Spec      one call of GroupFilesByContentUsingMap on a same-size bucket,*)
(*           step by step: batches, chunk reads, recursion.                *)
(* FairSpec  Spec with weak fairness of its steps (the program is          *)
(*           single-threaded and blocking: an enabled step is taken).      *)
(* DedupSpec wmain's loop over the duplicate groups (lines 449-463).       *)
(***************************************************************************)
EXTENDS Integers, Sequences, FiniteSets, TLC

\* Bounds of the model.
MaxFiles == 4
MaxFileLen == 2
MaxPaths == 5
\* Program constants, scaled down (4096 and 256 in the source) so that
\* several chunks and several batches happen within the bounds.
BUFFER_SIZE == 1
MAX_BATCH == 2
\* The byte values the files of a bucket of n files are made of: three in a
\* bucket of up to three files (two files can then differ from the pivot at the
\* same offset by different bytes), two in a larger one.
Bytes(n) == IF n <= 3 THEN {0, 1, 2} ELSE {0, 1}

VARIABLES
    content,          \* path -> the file's bytes
    canOpen,          \* the paths std::ifstream can open
    files,            \* the bucket passed to the top-level call
    resumeOffset,     \* totalBytesRead passed to the top-level call
    pc,               \* where the program is
    stack,            \* the frames of GroupFilesByContentUsingMap
    cmp,              \* the locals of the running CompareFilesBufferedAdvanced
    duplicateGroups,  \* the out-parameter duplicateGroups
    steps,            \* history: the steps the partitioner has taken
    fsys,             \* path -> the storage (file index) it names, or Missing
    data,             \* storage -> its content
    allDuplicateGroups, \* wmain's allDuplicateGroups
    gi,               \* wmain's position in allDuplicateGroups (from 1)
    mi,               \* DeduplicateGroup's loop index i (as a position from 1)
    masterId,         \* DeduplicateGroup's masterId
    dpc,              \* where wmain's deduplication loop is
    exitCode,         \* wmain's return value, NoExit while it runs
    fsAtCall,         \* history: fs when the running or last call began
    returned,         \* history: the result of each call that returned
    log               \* history: the system calls made, with their outcome

pvars == <<content, canOpen, files, resumeOffset, pc, stack, cmp, duplicateGroups,
           steps>>

dvars == <<fsys, data, allDuplicateGroups, gi, mi, masterId, dpc, exitCode,
           fsAtCall, returned, log>>

vars == <<pvars, dvars>>

\* No file under a path (storages are numbered from 1).
Missing == 0

\* wmain has not returned (it returns 0 or 1).
NoExit == -1

Min(a, b) == IF a < b THEN a ELSE b

\* The files of fs agree on bytes [0, k).
AgreeOn(fs, k) ==
    \A i, j \in 1 .. Len(fs) : \A b \in 1 .. k :
        (b <= Len(content[fs[i]]) /\ b <= Len(content[fs[j]]))
            => content[fs[i]][b] = content[fs[j]][b]

----------------------------------------------------------------------------
\* CompareFilesBufferedAdvanced

\* istream::read of n bytes at position pos; gcount is the length of the result.
Read(path, pos, n) ==
    IF pos >= Len(content[path])
    THEN << >>
    ELSE SubSeq(content[path], pos + 1, Min(pos + n, Len(content[path])))

\* Mutant of Seekg: the streams are positioned one byte too far.
SeekgOffByOne(off) == off + 1

\* seekg(totalBytesRead, std::ios::beg)
Seekg(off) == off

\* Mutant of OpenRights: the check of a failed open is missing, every file of
\* the batch is compared.
OpenRightsUnchecked(batch, off) ==
    [i \in 1 .. Len(batch) |-> [filePath |-> batch[i], pos |-> off]]

\* Mutant of OpenRights: the right files are not positioned at the resume offset.
OpenRightsNoSeek(batch, off) ==
    LET opened == SelectSeq(batch, LAMBDA p : p \in canOpen)
    IN  [i \in 1 .. Len(opened) |-> [filePath |-> opened[i], pos |-> 0]]

\* The loop that opens the right files: one state per file that opens.
OpenRights(batch, off) ==
    LET opened == SelectSeq(batch, LAMBDA p : p \in canOpen)
    IN  [i \in 1 .. Len(opened) |-> [filePath |-> opened[i], pos |-> Seekg(off)]]

\* std::memcmp(masterBuffer, rightBuffer, masterBytes) != 0
Memcmp(masterBuffer, rightBuffer) == masterBuffer # rightBuffer

\* The loop that finds the first mismatching byte (0-based index).
MismatchIndex(masterBuffer, rightBuffer) ==
    CHOOSE i \in 0 .. Len(masterBuffer) - 1 :
        /\ masterBuffer[i + 1] # rightBuffer[i + 1]
        /\ \A j \in 0 .. i - 1 : masterBuffer[j + 1] = rightBuffer[j + 1]

\* Mutant of MakeKey: the key carries the master's byte.
MakeKeyMasterByte(totalBytesRead, mismatchIndex, masterBuffer, rightBuffer) ==
    <<totalBytesRead + mismatchIndex, masterBuffer[mismatchIndex + 1]>>

\* GroupKey key{ totalBytesRead + mismatchIndex, rightBuffer[mismatchIndex] }
MakeKey(totalBytesRead, mismatchIndex, masterBuffer, rightBuffer) ==
    <<totalBytesRead + mismatchIndex, rightBuffer[mismatchIndex + 1]>>

\* Mutant of PushBack: the bucket is assigned, not appended to.
PushBackOverwrite(keyGroups, key, path) ==
    (key :> <<path>>) @@ keyGroups

\* keyGroups[key].push_back(path)
PushBack(keyGroups, key, path) ==
    IF key \in DOMAIN keyGroups
    THEN [keyGroups EXCEPT ![key] = Append(@, path)]
    ELSE keyGroups @@ (key :> <<path>>)

\* The for loop over rightStates of one chunk: a right file with a short read is
\* erased, one with a mismatch is put under its key and erased, the others stay.
RECURSIVE CompareChunk(_, _, _, _, _)
CompareChunk(states, masterBuffer, totalBytesRead, kept, keyGroups) ==
    IF states = << >>
    THEN [rightStates |-> kept, keyGroups |-> keyGroups]
    ELSE LET st == Head(states)
             rightBuffer == Read(st.filePath, st.pos, Len(masterBuffer))
         IN  IF Len(rightBuffer) # Len(masterBuffer)
             THEN CompareChunk(Tail(states), masterBuffer, totalBytesRead, kept, keyGroups)
             ELSE IF Memcmp(masterBuffer, rightBuffer)
             THEN CompareChunk(Tail(states), masterBuffer, totalBytesRead, kept,
                      PushBack(keyGroups,
                               MakeKey(totalBytesRead,
                                       MismatchIndex(masterBuffer, rightBuffer),
                                       masterBuffer, rightBuffer),
                               st.filePath))
             ELSE CompareChunk(Tail(states), masterBuffer, totalBytesRead,
                      Append(kept, [st EXCEPT !.pos = @ + Len(rightBuffer)]), keyGroups)

\* state.stream.peek(); state.stream.eof()
AtEof(st) == st.pos >= Len(content[st.filePath])

\* The final loop: the right files still active and at end of file.
Survivors(states) ==
    LET done == SelectSeq(states, AtEof)
    IN  [i \in 1 .. Len(done) |-> done[i].filePath]

\* One iteration of while (true) on the locals c of the call: the master's chunk
\* is read; with no bytes the loop ends, else every right file is compared, the
\* offset advances, and the loop ends when no right file is left.
ChunkStep(pivot, c, keyGroups) ==
    LET masterBuffer == Read(pivot, c.masterPos, BUFFER_SIZE)
        masterBytes == Len(masterBuffer)
        r == CompareChunk(c.rightStates, masterBuffer, c.totalBytesRead,
                          << >>, keyGroups)
    IN  IF masterBytes <= 0
        THEN [cmp |-> c, keyGroups |-> keyGroups, brk |-> TRUE]
        ELSE [cmp |-> [c EXCEPT !.masterPos = @ + masterBytes,
                                !.rightStates = r.rightStates,
                                !.totalBytesRead = @ + masterBytes],
              keyGroups |-> r.keyGroups,
              brk |-> r.rightStates = << >>]

\* No call of CompareFilesBufferedAdvanced is running: no stream is open.
NoCmp == [masterOpen |-> FALSE, masterPos |-> 0, rightStates |-> << >>,
          totalBytesRead |-> 0, batchSize |-> 0]

\* The number of streams open.
OpenStreams == (IF cmp.masterOpen THEN 1 ELSE 0) + Len(cmp.rightStates)

----------------------------------------------------------------------------
\* GroupFilesByContentUsingMap

\* operator< of std::pair<std::streamsize, char>, the order of the map keyGroups
\* (the model's bytes are below 128, where char compares as the number does).
KeyLess(a, b) == a[1] < b[1] \/ (a[1] = b[1] /\ a[2] < b[2])

\* The n-th entry (from 1) in the iteration order of the map.
NthKey(keyGroups, n) ==
    CHOOSE k \in DOMAIN keyGroups :
        Cardinality({j \in DOMAIN keyGroups : KeyLess(j, k)}) = n - 1

\* The locals of a call that got past files.size() < 2.
NewFrame(fs, off) ==
    [files |-> fs, totalBytesRead |-> off, duplicateGroup |-> <<fs[1]>>,
     keyGroups |-> << >>, processed |-> 0, visited |-> 0]

Top == stack[Len(stack)]

SetTop(f) == [stack EXCEPT ![Len(stack)] = f]

\* Mutant of BatchSize: the batch is taken from processed, not from what is left.
BatchSizeFromProcessed(f) == Min(f.processed, MAX_BATCH)

\* Mutant of BatchSize: the batch is not capped.
BatchSizeUncapped(f) == (Len(f.files) - 1) - f.processed

\* size_t batchSize = (std::min)(totalRightFiles - processed, MAX_BATCH);
BatchSize(f) == Min((Len(f.files) - 1) - f.processed, MAX_BATCH)

\* The files of the batch that starts at processed.
Batch(f) == SubSeq(f.files, 2 + f.processed, 1 + f.processed + BatchSize(f))

\* The locals of CompareFilesBufferedAdvanced once the master and the right files
\* of the batch are open and positioned.
OpenCmp(f) ==
    [masterOpen |-> TRUE,
     masterPos |-> Seekg(f.totalBytesRead),
     rightStates |-> OpenRights(Batch(f), f.totalBytesRead),
     totalBytesRead |-> f.totalBytesRead,
     batchSize |-> BatchSize(f)]

\* Where each step of the code can be taken: the position and the loop conditions.
CanStart == pc = "start"

\* while (processed < totalRightFiles)
CanBeginCompare == pc = "batch" /\ Top.processed < Len(Top.files) - 1

CanReadChunk == pc = "cmpLoop"

CanFinishCompare == pc = "cmpTail"

CanEmitGroup == pc = "batch" /\ Top.processed >= Len(Top.files) - 1

CanRecurseNext == pc = "recurse" /\ Top.visited < Cardinality(DOMAIN Top.keyGroups)

CanReturn == pc = "recurse" /\ Top.visited = Cardinality(DOMAIN Top.keyGroups)

\* wmain's call GroupFilesByContentUsingMap(entry.second, duplicateGroups, 0),
\* here with any resume offset the bucket's common prefix allows.
Start ==
    /\ CanStart
    /\ IF Len(files) < 2
       THEN /\ pc' = "done"
            /\ stack' = stack
       ELSE /\ pc' = "batch"
            /\ stack' = <<NewFrame(files, resumeOffset)>>
    /\ UNCHANGED <<content, canOpen, files, resumeOffset, cmp, duplicateGroups>>
    /\ steps' = steps + 1
    /\ UNCHANGED dvars

\* The head of the batch loop and the start of CompareFilesBufferedAdvanced:
\* the master is opened (on failure the call returns) and the right files are.
BeginCompare ==
    /\ CanBeginCompare
    /\ LET f == Top
       IN  IF f.files[1] \notin canOpen
           THEN /\ stack' = SetTop([f EXCEPT !.processed = @ + BatchSize(f)])
                /\ cmp' = cmp
                /\ pc' = "batch"
           ELSE /\ cmp' = OpenCmp(f)
                /\ stack' = stack
                /\ pc' = "cmpLoop"
    /\ UNCHANGED <<content, canOpen, files, resumeOffset, duplicateGroups>>
    /\ steps' = steps + 1
    /\ UNCHANGED dvars

\* One iteration of while (true): a chunk of the master against every right file.
ReadChunk ==
    /\ CanReadChunk
    /\ LET s == ChunkStep(Top.files[1], cmp, Top.keyGroups)
       IN  /\ cmp' = s.cmp
           /\ stack' = SetTop([Top EXCEPT !.keyGroups = s.keyGroups])
           /\ pc' = IF s.brk THEN "cmpTail" ELSE "cmpLoop"
    /\ UNCHANGED <<content, canOpen, files, resumeOffset, duplicateGroups>>
    /\ steps' = steps + 1
    /\ UNCHANGED dvars

\* The final loop of CompareFilesBufferedAdvanced and its return: the streams
\* are closed by their destructors; the caller adds the batch to processed.
FinishCompare ==
    /\ CanFinishCompare
    /\ stack' = SetTop([Top EXCEPT
                          !.duplicateGroup = @ \o Survivors(cmp.rightStates),
                          !.processed = @ + cmp.batchSize])
    /\ cmp' = NoCmp
    /\ pc' = "batch"
    /\ UNCHANGED <<content, canOpen, files, resumeOffset, duplicateGroups>>
    /\ steps' = steps + 1
    /\ UNCHANGED dvars

\* if (duplicateGroup.size() > 1) duplicateGroups.push_back(duplicateGroup);
EmitGroup ==
    /\ CanEmitGroup
    /\ duplicateGroups' = IF Len(Top.duplicateGroup) > 1
                          THEN Append(duplicateGroups, Top.duplicateGroup)
                          ELSE duplicateGroups
    /\ pc' = "recurse"
    /\ UNCHANGED <<content, canOpen, files, resumeOffset, stack, cmp>>
    /\ steps' = steps + 1
    /\ UNCHANGED dvars

\* The bucket a recursive call gets and its resume offset.
ChildFrame(keyGroups, key) == NewFrame(keyGroups[key], key[1])

\* One entry of for (const auto& entry : keyGroups): a bucket of two or more
\* files is partitioned by a recursive call.
RecurseNext ==
    /\ CanRecurseNext
    /\ LET f == Top
           key == NthKey(f.keyGroups, f.visited + 1)
           g == [f EXCEPT !.visited = @ + 1]
       IN  IF Len(f.keyGroups[key]) > 1
           THEN /\ stack' = Append(SetTop(g), ChildFrame(f.keyGroups, key))
                /\ pc' = "batch"
           ELSE /\ stack' = SetTop(g)
                /\ pc' = "recurse"
    /\ UNCHANGED <<content, canOpen, files, resumeOffset, cmp, duplicateGroups>>
    /\ steps' = steps + 1
    /\ UNCHANGED dvars

\* The end of a call: back in the caller's loop, or the top-level call is over.
Return ==
    /\ CanReturn
    /\ stack' = SubSeq(stack, 1, Len(stack) - 1)
    /\ pc' = IF Len(stack) = 1 THEN "done" ELSE "recurse"
    /\ UNCHANGED <<content, canOpen, files, resumeOffset, cmp, duplicateGroups>>
    /\ steps' = steps + 1
    /\ UNCHANGED dvars

\* The deduplication loop has nothing to do (the partitioner is what runs).
DedupIdle ==
    /\ fsys = << >>
    /\ data = << >>
    /\ allDuplicateGroups = << >>
    /\ gi = 1
    /\ mi = 1
    /\ masterId = 0
    /\ dpc = "idle"
    /\ exitCode = NoExit
    /\ fsAtCall = << >>
    /\ returned = << >>
    /\ log = << >>

\* A same-size bucket of up to MaxFiles files, at most one of which cannot be
\* opened, and a resume offset up to which the whole bucket is identical.
Init ==
    /\ \E n \in 0 .. MaxFiles, len \in 1 .. MaxFileLen :
        /\ files = [i \in 1 .. n |-> i]
        /\ content \in [1 .. n -> [1 .. len -> Bytes(n)]]
        /\ \E bad \in SUBSET (1 .. n) :
            /\ Cardinality(bad) <= 1
            /\ canOpen = (1 .. n) \ bad
        /\ resumeOffset \in 0 .. len
    /\ AgreeOn(files, resumeOffset)
    /\ pc = "start"
    /\ stack = << >>
    /\ cmp = NoCmp
    /\ duplicateGroups = << >>
    /\ steps = 0
    /\ DedupIdle

Next ==
    \/ Start
    \/ BeginCompare
    \/ ReadChunk
    \/ FinishCompare
    \/ EmitGroup
    \/ RecurseNext
    \/ Return

Spec == Init /\ [][Next]_vars

FairSpec == Spec /\ WF_vars(Next)

----------------------------------------------------------------------------
\* DeduplicateGroup and wmain's loop over allDuplicateGroups

\* The ways to cut the paths a .. n into consecutive groups of two or more.
RECURSIVE Splits(_, _)
Splits(a, n) ==
    IF a > n
    THEN {<< >>}
    ELSE UNION {{<<[i \in 1 .. k |-> a + i - 1]>> \o rest : rest \in Splits(a + k, n)} :
                   k \in 2 .. (n - a + 1)}

\* The position in groups of the group that holds path p.
GroupOf(groups, p) ==
    CHOOSE g \in 1 .. Len(groups) : \E i \in 1 .. Len(groups[g]) : groups[g][i] = p

\* const std::wstring master = duplicateGroup[0];
Master(duplicateGroup) == duplicateGroup[1]

\* for (size_t i = 1; ...): the position of the first duplicate processed.
FirstDuplicate == 2

\* GetFileUniqueIdAndLinkCount can succeed only on a path that names a file.
CanQuery(path) == fsys[path] # Missing

\* Mutant of AlreadyLinked: the check is missing.
AlreadyLinkedNever(dupId, theMasterId) == FALSE

\* if (dupId == masterId): already a hard link to the master.
AlreadyLinked(dupId, theMasterId) == dupId = theMasterId

\* Mutant of DeleteArg: the master is deleted.
DeleteArgMaster(dupFile, master) == master

\* The argument of DeleteFileW.
DeleteArg(dupFile, master) == dupFile

\* CreateHardLinkW(dupFile, master) can succeed only when master names a file
\* and dupFile names none.
CanLink(f, dupFile, master) == f[master] # Missing /\ f[dupFile] = Missing

\* Mutant of WmainAfterGroup: the result is ignored.
WmainAfterGroupIgnoreResult(result, g) ==
    [dpc |-> "loop", exitCode |-> NoExit, gi |-> g + 1]

\* What wmain does with the result of DeduplicateGroup on group g: return 1 on
\* failure, go on with the next group otherwise.
WmainAfterGroup(result, g) ==
    IF ~result
    THEN [dpc |-> "exit", exitCode |-> 1, gi |-> g]
    ELSE [dpc |-> "loop", exitCode |-> NoExit, gi |-> g + 1]

Entry(op, g, path, ok) == [op |-> op, group |-> g, path |-> path, ok |-> ok]

\* wmain calls DeduplicateGroup on the next group: the size check and the
\* identity query of the master, which may fail.
DeduplicateGroupBegin ==
    /\ dpc = "loop"
    /\ gi <= Len(allDuplicateGroups)
    /\ LET group == allDuplicateGroups[gi]
       IN  IF Len(group) < 2
           THEN LET w == WmainAfterGroup(TRUE, gi)
                IN  /\ dpc' = w.dpc
                    /\ exitCode' = w.exitCode
                    /\ gi' = w.gi
                    /\ returned' = Append(returned, TRUE)
                    /\ UNCHANGED <<masterId, mi, log>>
           ELSE \E ok \in BOOLEAN :
                /\ ok => CanQuery(Master(group))
                /\ log' = Append(log, Entry("masterId", gi, Master(group), ok))
                /\ IF ok
                   THEN /\ masterId' = fsys[Master(group)]
                        /\ mi' = FirstDuplicate
                        /\ dpc' = "members"
                        /\ UNCHANGED <<gi, exitCode, returned>>
                   ELSE LET w == WmainAfterGroup(FALSE, gi)
                        IN  /\ dpc' = w.dpc
                            /\ exitCode' = w.exitCode
                            /\ gi' = w.gi
                            /\ returned' = Append(returned, FALSE)
                            /\ UNCHANGED <<masterId, mi>>
    /\ fsAtCall' = fsys
    /\ UNCHANGED <<fsys, data, allDuplicateGroups>>
    /\ UNCHANGED pvars

\* One iteration of the for loop: the identity query of the duplicate, the
\* already-linked check, DeleteFileW and CreateHardLinkW, each of which may fail.
DeduplicateMember ==
    /\ dpc = "members"
    /\ mi <= Len(allDuplicateGroups[gi])
    /\ LET group == allDuplicateGroups[gi]
           master == Master(group)
           dupFile == group[mi]
           target == DeleteArg(dupFile, master)
       IN  \E idOk, delOk, linkOk \in BOOLEAN :
           LET qEntry == Entry("dupId", gi, dupFile, idOk)
               dEntry == Entry("delete", gi, target, delOk)
               lEntry == Entry("link", gi, dupFile, linkOk)
               deleted == [fsys EXCEPT ![target] = Missing]
               linked == [deleted EXCEPT ![dupFile] = deleted[master]]
           IN  /\ idOk => CanQuery(dupFile)
               /\ IF ~idOk
                  THEN /\ log' = Append(log, qEntry)
                       /\ fsys' = fsys
                  ELSE IF AlreadyLinked(fsys[dupFile], masterId)
                  THEN /\ log' = Append(log, qEntry)
                       /\ fsys' = fsys
                  ELSE IF ~delOk
                  THEN /\ log' = log \o <<qEntry, dEntry>>
                       /\ fsys' = fsys
                  ELSE /\ fsys[target] # Missing
                       /\ linkOk => CanLink(deleted, dupFile, master)
                       /\ log' = log \o <<qEntry, dEntry, lEntry>>
                       /\ fsys' = IF linkOk THEN linked ELSE deleted
    /\ mi' = mi + 1
    /\ UNCHANGED <<data, allDuplicateGroups, gi, masterId, dpc, exitCode,
                   fsAtCall, returned>>
    /\ UNCHANGED pvars

\* The loop is over: DeduplicateGroup returns true and wmain goes on.
DeduplicateGroupEnd ==
    /\ dpc = "members"
    /\ mi > Len(allDuplicateGroups[gi])
    /\ LET w == WmainAfterGroup(TRUE, gi)
       IN  /\ dpc' = w.dpc
           /\ exitCode' = w.exitCode
           /\ gi' = w.gi
    /\ returned' = Append(returned, TRUE)
    /\ UNCHANGED <<fsys, data, allDuplicateGroups, mi, masterId, fsAtCall, log>>
    /\ UNCHANGED pvars

\* Every group was processed: return 0.
WmainReturn0 ==
    /\ dpc = "loop"
    /\ gi > Len(allDuplicateGroups)
    /\ dpc' = "exit"
    /\ exitCode' = 0
    /\ UNCHANGED <<fsys, data, allDuplicateGroups, gi, mi, masterId, fsAtCall,
                   returned, log>>
    /\ UNCHANGED pvars

\* The partitioner is not running.
PartitionIdle ==
    /\ content = << >>
    /\ canOpen = {}
    /\ files = << >>
    /\ resumeOffset = 0
    /\ pc = "idle"
    /\ stack = << >>
    /\ cmp = NoCmp
    /\ duplicateGroups = << >>
    /\ steps = 0

\* Up to MaxPaths existing files in groups of two or more, as the partitioner
\* emits them: the files of a group have the same content, files of different
\* groups differ (so share no storage), and within a group any files may already
\* be hard links of one storage. A storage is named by the first path on it.
DedupInit ==
    /\ \E n \in 2 .. MaxPaths :
        /\ allDuplicateGroups \in Splits(1, n)
        /\ fsys \in [1 .. n -> 1 .. n]
        /\ \A p \in 1 .. n :
            /\ fsys[p] <= p
            /\ fsys[fsys[p]] = fsys[p]
            /\ GroupOf(allDuplicateGroups, fsys[p]) = GroupOf(allDuplicateGroups, p)
        /\ data = [s \in 1 .. n |-> GroupOf(allDuplicateGroups, s)]
    /\ gi = 1
    /\ mi = 1
    /\ masterId = 0
    /\ dpc = "loop"
    /\ exitCode = NoExit
    /\ fsAtCall = fsys
    /\ returned = << >>
    /\ log = << >>
    /\ PartitionIdle

DedupNext ==
    \/ DeduplicateGroupBegin
    \/ DeduplicateMember
    \/ DeduplicateGroupEnd
    \/ WmainReturn0

DedupSpec == DedupInit /\ [][DedupNext]_vars

----------------------------------------------------------------------------
\* The same code run to its end in one evaluation: what a call of
\* GroupFilesByContentUsingMap(fs, off) adds to duplicateGroups. It is what the
\* claims that compare two calls (two resume offsets, two buckets) are stated with.

\* The while loop of CompareFilesBufferedAdvanced, run until it breaks.
RECURSIVE RunChunks(_, _, _)
RunChunks(pivot, c, keyGroups) ==
    LET s == ChunkStep(pivot, c, keyGroups)
    IN  IF s.brk THEN s ELSE RunChunks(pivot, s.cmp, s.keyGroups)

\* One call of CompareFilesBufferedAdvanced on the batch at f.processed.
AfterBatch(f) ==
    IF f.files[1] \notin canOpen
    THEN [f EXCEPT !.processed = @ + BatchSize(f)]
    ELSE LET s == RunChunks(f.files[1], OpenCmp(f), f.keyGroups)
         IN  [f EXCEPT !.keyGroups = s.keyGroups,
                       !.duplicateGroup = @ \o Survivors(s.cmp.rightStates),
                       !.processed = @ + BatchSize(f)]

\* while (processed < totalRightFiles)
RECURSIVE AllBatches(_)
AllBatches(f) ==
    IF f.processed < Len(f.files) - 1 THEN AllBatches(AfterBatch(f)) ELSE f

RECURSIVE GroupFrame(_, _)
RECURSIVE RecurseFrom(_, _, _)

\* The body of a call whose locals are f, after the size check.
GroupFrame(f, dgs) ==
    LET g == AllBatches(f)
    IN  RecurseFrom(g.keyGroups, 1,
                    IF Len(g.duplicateGroup) > 1
                    THEN Append(dgs, g.duplicateGroup)
                    ELSE dgs)

\* for (const auto& entry : keyGroups), from the n-th entry on.
RecurseFrom(keyGroups, n, dgs) ==
    IF n > Cardinality(DOMAIN keyGroups)
    THEN dgs
    ELSE LET key == NthKey(keyGroups, n)
         IN  RecurseFrom(keyGroups, n + 1,
                         IF Len(keyGroups[key]) > 1
                         THEN GroupFrame(ChildFrame(keyGroups, key), dgs)
                         ELSE dgs)

\* GroupFilesByContentUsingMap(fs, duplicateGroups = {}, off)
GroupCall(fs, off) ==
    IF Len(fs) < 2 THEN << >> ELSE GroupFrame(NewFrame(fs, off), << >>)

\* The step-by-step run ends with what the one-evaluation run computes.
StepsAgreeWithGroupCall ==
    pc = "done" => duplicateGroups = GroupCall(files, resumeOffset)

----------------------------------------------------------------------------
\* Properties of the partitioner

Range(seq) == {seq[i] : i \in 1 .. Len(seq)}

AllOpenable == \A i \in 1 .. Len(files) : files[i] \in canOpen

\* The 0-based offset of the first byte at which two different files differ.
FirstDiff(a, b) ==
    CHOOSE i \in 0 .. Min(Len(content[a]), Len(content[b])) - 1 :
        /\ content[a][i + 1] # content[b][i + 1]
        /\ \A j \in 0 .. i - 1 : content[a][j + 1] = content[b][j + 1]

\* The content-equivalence classes of the bucket with two or more members.
DuplicateClasses ==
    {c \in {{q \in Range(files) : content[q] = content[p]} : p \in Range(files)} :
        Cardinality(c) >= 2}

\* fs without the file p.
Without(fs, p) == SelectSeq(fs, LAMBDA q : q # p)

\* A group emitted by a recursive call: it does not hold the bucket's first file.
FromRecursion(g) == files[1] \notin Range(g)

\* C1: in a run from resume offset 0, at every point, any two files of one
\* emitted duplicate group have the same bytes over their whole length.
C1_GroupMembersIdentical ==
    resumeOffset = 0 =>
        \A g \in 1 .. Len(duplicateGroups) :
            \A i, j \in 1 .. Len(duplicateGroups[g]) :
                content[duplicateGroups[g][i]] = content[duplicateGroups[g][j]]

\* C1 witness: a finished run from offset 0 over two batches that emitted a group
\* of the pivot and a group found by a recursive call.
C1_Witness ==
    /\ pc = "done"
    /\ resumeOffset = 0
    /\ Len(files) > MAX_BATCH + 1
    /\ Len(duplicateGroups) = 2
    /\ FromRecursion(duplicateGroups[2])

\* C2: when every file of the bucket opens, the emitted groups are exactly the
\* content-equivalence classes with two or more members, and no file is
\* emitted twice (the groups are disjoint and hold no file twice).
C2_GroupsAreClasses ==
    (pc = "done" /\ AllOpenable) =>
        /\ {Range(duplicateGroups[g]) : g \in 1 .. Len(duplicateGroups)}
               = DuplicateClasses
        /\ \A g, h \in 1 .. Len(duplicateGroups) :
               \A i \in 1 .. Len(duplicateGroups[g]), j \in 1 .. Len(duplicateGroups[h]) :
                   duplicateGroups[g][i] = duplicateGroups[h][j] => (g = h /\ i = j)

\* C2 witness: a finished run, every file openable, in which the only group was
\* found by a recursive call and two files are in no group (unique content).
C2_Witness ==
    /\ pc = "done"
    /\ AllOpenable
    /\ Len(files) = 4
    /\ Len(duplicateGroups) = 1
    /\ FromRecursion(duplicateGroups[1])
    /\ Len(duplicateGroups[1]) = 2

\* C3 as claimed: an unopenable file is in no emitted group and the groups are
\* those of the bucket without it, wherever the file is in the bucket.
C3_Original ==
    pc = "done" =>
        \A p \in Range(files) \ canOpen :
            /\ \A g \in 1 .. Len(duplicateGroups) : p \notin Range(duplicateGroups[g])
            /\ duplicateGroups = GroupCall(Without(files, p), resumeOffset)

\* C3 amended: an unopenable file is in no emitted group; when it is not the
\* first file of the bucket the groups are those of the bucket without it, and
\* when it is the first file (the pivot) no group is emitted for the bucket.
C3_UnopenableFile ==
    pc = "done" =>
        \A p \in Range(files) \ canOpen :
            /\ \A g \in 1 .. Len(duplicateGroups) : p \notin Range(duplicateGroups[g])
            /\ IF p = files[1]
               THEN duplicateGroups = << >>
               ELSE duplicateGroups = GroupCall(Without(files, p), resumeOffset)

\* C3 witness: a finished run in which a candidate between two others cannot be
\* opened and groups were still emitted for the rest.
C3_Witness ==
    /\ pc = "done"
    /\ \E i \in 2 .. Len(files) - 1 : files[i] \notin canOpen
    /\ duplicateGroups # << >>

\* C7 as claimed: a file under a key differs from the call's pivot first at the
\* key's offset, and the key's byte is the pivot's byte at that offset.
C7_Original ==
    \A d \in 1 .. Len(stack) :
        \A key \in DOMAIN stack[d].keyGroups :
            \A i \in 1 .. Len(stack[d].keyGroups[key]) :
                LET pivot == stack[d].files[1]
                    p == stack[d].keyGroups[key][i]
                IN  /\ content[p] # content[pivot]
                    /\ key[1] = FirstDiff(pivot, p)
                    /\ key[2] = content[pivot][key[1] + 1]

\* C7 amended: a file under a key differs from the call's pivot first at the
\* key's offset, and the key's byte is the file's own byte at that offset.
C7_KeyIsCandidateByte ==
    \A d \in 1 .. Len(stack) :
        \A key \in DOMAIN stack[d].keyGroups :
            \A i \in 1 .. Len(stack[d].keyGroups[key]) :
                LET pivot == stack[d].files[1]
                    p == stack[d].keyGroups[key][i]
                IN  /\ content[p] # content[pivot]
                    /\ key[1] = FirstDiff(pivot, p)
                    /\ key[2] = content[p][key[1] + 1]

\* C7 witness: a call has put two files that first differ from its pivot at the
\* same positive offset under two keys, one for each file's byte there.
C7_Witness ==
    /\ Len(stack) >= 1
    /\ \E key1, key2 \in DOMAIN Top.keyGroups :
         key1[1] > 0 /\ key1[1] = key2[1] /\ key1[2] # key2[2]

\* C8: a run from resume offset K on a bucket identical on [0, K) emits the
\* groups of the run from 0, in the same order; and every call on the stack has
\* a bucket whose files agree below the call's resume offset.
C8_ResumeEquivalence ==
    /\ pc = "done" => duplicateGroups = GroupCall(files, 0)
    /\ \A d \in 1 .. Len(stack) : AgreeOn(stack[d].files, stack[d].totalBytesRead)

\* C8 witness: a finished run from a positive resume offset that emitted a group
\* of the pivot and a group found by a recursive call.
C8_Witness ==
    /\ pc = "done"
    /\ resumeOffset > 0
    /\ Len(duplicateGroups) = 2
    /\ FromRecursion(duplicateGroups[2])

\* Steps that a run on n files of len bytes cannot exceed: the call by wmain,
\* then at most n - 1 calls (each has a pivot of its own), each of at most
\* n - 1 batches of at most len + 3 steps (open, at most len + 1 chunk reads,
\* return), one emit, at most n - 1 map entries and one return.
StepBound(n, len) ==
    IF n < 2 THEN 1 ELSE 1 + (n - 1) * ((n - 1) * (len + 4) + 2)

FileLen == IF Len(files) = 0 THEN 0 ELSE Len(content[files[1]])

\* Some step of the partitioner can be taken.
CanStep ==
    \/ CanStart
    \/ CanBeginCompare
    \/ CanReadChunk
    \/ CanFinishCompare
    \/ CanEmitGroup
    \/ CanRecurseNext
    \/ CanReturn

\* The steps' conditions are all that a step needs: CanStep is ENABLED Next.
CanStepIsEnabled == CanStep <=> ENABLED Next

\* C9: every call on the stack has a larger resume offset or fewer files than
\* the call that made it, and the partitioning ends: a run takes a bounded
\* number of steps and can always take a step until the top-level call returns.
C9_Terminates ==
    /\ \A d \in 2 .. Len(stack) :
          \/ stack[d].totalBytesRead > stack[d - 1].totalBytesRead
          \/ Len(stack[d].files) < Len(stack[d - 1].files)
    /\ steps <= StepBound(Len(files), FileLen)
    /\ pc = "done" \/ CanStep

\* C9 witness: a recursive call made by a recursive call is reading chunks.
C9_Witness == Len(stack) >= 3 /\ pc = "cmpLoop"

\* The top-level call returns (under FairSpec).
Termination == <>(pc = "done")

\* C10: never more than MAX_BATCH right streams and the master's are open, and
\* outside a call of CompareFilesBufferedAdvanced (between batches, when the
\* group is emitted, in the recursion, at the end) no stream is open.
C10_OpenStreamsBounded ==
    /\ OpenStreams <= MAX_BATCH + 1
    /\ pc \notin {"cmpLoop", "cmpTail"} => OpenStreams = 0

\* C10 witness: a full batch and the master are open in a recursive call.
C10_Witness == OpenStreams = MAX_BATCH + 1 /\ Len(stack) >= 2

----------------------------------------------------------------------------
\* Properties of the deduplicator

\* A call of DeduplicateGroup has returned and no later call has begun.
CallReturned == dpc \in {"loop", "exit"} /\ returned # << >>

\* The group of the last call that returned.
LastGroup == allDuplicateGroups[Len(returned)]

\* The log holds a DeleteFileW or CreateHardLinkW made for group g.
Touched(g) ==
    \E k \in 1 .. Len(log) : log[k].group = g /\ log[k].op \in {"delete", "link"}

\* C4: after a call of DeduplicateGroup, whatever failed, the master's path
\* names the same storage with the same content as when the call began; every
\* other member's path names a file of its original content or none; and it
\* names none only when its delete succeeded and its hard link then failed.
C4_MasterKeptMembersSafe ==
    CallReturned =>
        LET g == Len(returned)
            m == Master(LastGroup)
        IN  /\ fsys[m] # Missing
            /\ fsys[m] = fsAtCall[m]
            /\ data[fsys[m]] = data[fsAtCall[m]]
            /\ \A i \in 2 .. Len(LastGroup) :
                 LET p == LastGroup[i]
                 IN  /\ fsys[p] # Missing => data[fsys[p]] = data[fsAtCall[p]]
                     /\ fsys[p] = Missing =>
                          \E k \in 1 .. Len(log) - 1 :
                              /\ log[k] = Entry("delete", g, p, TRUE)
                              /\ log[k + 1] = Entry("link", g, p, FALSE)

\* C4 witness: a call returned on a group of three in which one member was
\* relinked to the master's storage and another is left missing.
C4_Witness ==
    /\ CallReturned
    /\ Len(LastGroup) >= 3
    /\ \E i, j \in 2 .. Len(LastGroup) :
         /\ fsys[LastGroup[i]] = Missing
         /\ fsys[LastGroup[j]] = fsys[Master(LastGroup)]
         /\ fsAtCall[LastGroup[j]] # fsAtCall[Master(LastGroup)]

\* C5: a failed identity query of a group's master is the last system call of
\* the run: no delete and no link was made for that group, the call returned
\* failure, wmain has returned 1, no later group was touched, nothing more can
\* happen, and the file system is as the earlier groups left it.
C5_MasterFailureEndsRun ==
    \A k \in 1 .. Len(log) :
        (log[k].op = "masterId" /\ ~log[k].ok) =>
            /\ k = Len(log)
            /\ \A j \in 1 .. Len(log) :
                 /\ log[j].group <= log[k].group
                 /\ log[j].group = log[k].group => j = k
            /\ Len(returned) = log[k].group
            /\ returned[Len(returned)] = FALSE
            /\ dpc = "exit"
            /\ exitCode = 1
            /\ fsys = fsAtCall
            /\ ~ENABLED DedupNext

\* C5 witness: the master's query failed on the second group of two, after a
\* member of the first group was relinked.
C5_Witness ==
    /\ exitCode = 1
    /\ gi = 2
    /\ Len(allDuplicateGroups) = 2
    /\ \E i \in 2 .. Len(allDuplicateGroups[1]) :
         LET p == allDuplicateGroups[1][i]
         IN  Entry("link", 1, p, TRUE) \in {log[k] : k \in 1 .. Len(log)}

\* Every member of the group of the last call named the master's storage when
\* the call began.
AllLinkedAtCall ==
    \A i \in 1 .. Len(LastGroup) : fsAtCall[LastGroup[i]] = fsAtCall[Master(LastGroup)]

\* The outcome of the master's identity query in the last call.
MasterQueryOk ==
    \E k \in 1 .. Len(log) : log[k] = Entry("masterId", Len(returned), Master(LastGroup), TRUE)

\* C6 as claimed: a call on a group whose members all name the master's storage
\* makes no delete and no link, changes no path, and returns success.
C6_Original ==
    (CallReturned /\ AllLinkedAtCall) =>
        /\ ~Touched(Len(returned))
        /\ fsys = fsAtCall
        /\ returned[Len(returned)] = TRUE

\* C6 amended: such a call makes no delete and no link and changes no path; it
\* returns success when the master's identity query succeeds and failure when
\* that query fails.
C6_AlreadyLinkedNoOp ==
    (CallReturned /\ AllLinkedAtCall) =>
        /\ ~Touched(Len(returned))
        /\ fsys = fsAtCall
        /\ returned[Len(returned)] = MasterQueryOk

\* C6 witness: a call on a group of three or more files that are all hard links
\* of one storage returned success.
C6_Witness ==
    /\ CallReturned
    /\ AllLinkedAtCall
    /\ Len(LastGroup) >= 3
    /\ returned[Len(returned)] = TRUE

====
